---- MODULE Spec2Model ----
(***************************************************************************)
(* Model of the campaign data loader (src/app/utils/data_loader.py):       *)
(* per-campaign enrichment (load_campaign_data), the n-gram pass, the      *)
(* response-cache clear of load_data and the coordinate pass               *)
(* (load_coordinates).                                                     *)
(*                                                                         *)
(* A Python str is a sequence of one-character strings, so that split,     *)
(* join, isnumeric, int and sorted are computed as Python computes them.   *)
(* A Python value that may be None, NaN, an int or a str is a record with  *)
(* a "kind" field.                                                         *)
(***************************************************************************)
EXTENDS Integers, Sequences, FiniteSets, TLC

VARIABLES
    age_in,            \* argument of get_age_bucket / filter_ages_10_to_24
    age_out,           \* result of get_age_bucket (Pending before the call)
    age_filtered,      \* result of filter_ages_10_to_24 (Pending before the call)
    category_mapping,  \* code_hierarchy: campaign -> (leaf code -> top-level code)
    tl_campaign,       \* campaign argument of get_top_level
    tl_hist,           \* <<input, get_top_level(input), get_top_level(that), ...>>
    warehouse,         \* campaign -> the raw table the warehouse query returns
    store,             \* CampaignCRUD: campaign -> stored artifacts
    lcd_result,        \* campaign -> how its last load_campaign_data ended
    lc_campaign,       \* campaign of the direct calls of load_campaign_data
    lc_calls,          \* number of direct calls of load_campaign_data so far
    ld_pc,             \* position of load_data
    ld_i,              \* index in CampaignCode of the campaign load_data is at
    ld_run,            \* number of load_data runs started
    ld_data_done,      \* campaigns whose data load returned in this run
    ld_ngrams_done,    \* campaigns whose n-gram load returned in this run
    cache_clears,      \* number of ApiCache clears in this run
    api_cache,         \* ApiCache: the cached responses
    globals_coordinates,   \* globals.coordinates
    coordinates_json,      \* the content of the file coordinates.json
    stage_is_dev,          \* os.getenv("stage") is "dev"
    coordinates,           \* load_coordinates: the local dict
    coordinates_is_global, \* load_coordinates: the local dict is globals.coordinates
    new_coordinates_added, \* load_coordinates: the local flag
    lco_pc,                \* position of load_coordinates
    lco_i,                 \* index of the campaign load_coordinates is at
    lco_j,                 \* index of the location load_coordinates is at
    lco_locations,         \* load_coordinates: the locations of the campaign
    lco_passes,            \* number of load_coordinates passes started
    coordinates_before,    \* the local dict as loaded at the start of the pass
    geocoded,              \* the (country, location) pairs geocoded in this pass
    written_in,            \* per campaign and artifact, the run of load_data that set it
    in_flight,             \* API requests that have read the store and not yet cached
    pq_campaign,           \* populate_additional_q_columns: the campaign_code argument
    pq_fields,             \* the additional_fields of the row argument
    pq_row                 \* the row populate_additional_q_columns returned

ageVars == <<age_in, age_out, age_filtered>>
topVars == <<tl_campaign, tl_hist>>
lcVars == <<lc_campaign, lc_calls>>
pqVars == <<pq_campaign, pq_fields, pq_row>>
ldVars ==
    <<ld_pc, ld_i, ld_run, ld_data_done, ld_ngrams_done, cache_clears, api_cache,
      written_in, in_flight>>

coordVars ==
    <<globals_coordinates, coordinates_json, stage_is_dev, coordinates,
      coordinates_is_global, new_coordinates_added, lco_pc, lco_i, lco_j,
      lco_locations, lco_passes, coordinates_before, geocoded>>

vars ==
    <<age_in, age_out, age_filtered, category_mapping, tl_campaign, tl_hist,
      warehouse, store, lcd_result, lc_campaign, lc_calls,
      ld_pc, ld_i, ld_run, ld_data_done, ld_ngrams_done, cache_clears, api_cache,
      globals_coordinates, coordinates_json, stage_is_dev, coordinates,
      coordinates_is_global, new_coordinates_added, lco_pc, lco_i, lco_j,
      lco_locations, lco_passes, coordinates_before, geocoded,
      written_in, in_flight, pq_campaign, pq_fields, pq_row>>

-----------------------------------------------------------------------------
(* Bounds *)

MaxAgeLen == 2      \* longest age string drawn as an input
MaxLeafLen == 3     \* longest leaf_categories string drawn as an input
MaxIntAge == 60     \* largest integer age drawn as an input
MaxApply == 2       \* get_top_level is applied at most this many times in a row
MaxRows == 2        \* most rows of a raw table
MaxLoads == 2       \* most direct calls of load_campaign_data
MaxRuns == 2        \* most runs of load_data
MaxInFlight == 1    \* most API requests between their read and their put
MaxPasses == 2      \* most passes of load_coordinates

-----------------------------------------------------------------------------
(* Python values *)

None == [kind |-> "None"]
NaN == [kind |-> "nan"]
PyStr(s) == [kind |-> "str", s |-> s]
PyInt(n) == [kind |-> "int", n |-> n]
Raised(e) == [kind |-> "raise", exc |-> e]
Pending == [kind |-> "pending"]

IsStr(v) == v.kind = "str"
IsRaised(v) == v.kind = "raise"

\* characters in code-point order (str comparison compares code points)
Alphabet ==
    <<" ", "+", "-", ".", "/", "0", "1", "2", "3", "4", "5", "6", "7", "8", "9",
      "A", "B", "C", "D", "E", "F", "G", "H", "I", "J", "K", "L", "M", "N", "O",
      "P", "Q", "R", "S", "T", "U", "V", "W", "X", "Y", "Z", "n", "½">>

Ord(c) == CHOOSE i \in 1..Len(Alphabet) : Alphabet[i] = c

DecimalDigits == {"0", "1", "2", "3", "4", "5", "6", "7", "8", "9"}

\* characters for which str.isnumeric() is true: the decimal digits and
\* other numeric characters such as the vulgar fraction one half
NumericChars == DecimalDigits \cup {"½"}

DigitVal(c) == Ord(c) - Ord("0")

\* str.isnumeric(): non-empty and every character numeric
isnumeric(s) == Len(s) > 0 /\ \A i \in 1..Len(s) : s[i] \in NumericChars

RECURSIVE DecimalValue(_)
DecimalValue(s) ==
    IF Len(s) = 0 THEN 0
    ELSE 10 * DecimalValue(SubSeq(s, 1, Len(s) - 1)) + DigitVal(s[Len(s)])

\* int(s) for a str s: the decimal value, ValueError on a non-decimal character
int(s) ==
    IF Len(s) > 0 /\ \A i \in 1..Len(s) : s[i] \in DecimalDigits
    THEN PyInt(DecimalValue(s))
    ELSE Raised("ValueError")

\* a < b for two str (lexicographic on code points)
StrLess(a, b) ==
    \E k \in 1..(Len(b)) :
        /\ \A j \in 1..(k - 1) : j <= Len(a) /\ a[j] = b[j]
        /\ \/ k = Len(a) + 1
           \/ k <= Len(a) /\ Ord(a[k]) < Ord(b[k])

\* sorted(S) for a set S of str
RECURSIVE sorted(_)
sorted(S) ==
    IF S = {} THEN <<>>
    ELSE LET m == CHOOSE x \in S : \A y \in S \ {x} : StrLess(x, y)
         IN  <<m>> \o sorted(S \ {m})

\* s.split(sep) for a one-character separator
RECURSIVE split(_, _)
split(s, sep) ==
    IF \A i \in 1..Len(s) : s[i] # sep THEN <<s>>
    ELSE LET i == CHOOSE k \in 1..Len(s) :
                      s[k] = sep /\ \A j \in 1..(k - 1) : s[j] # sep
         IN  <<SubSeq(s, 1, i - 1)>> \o split(SubSeq(s, i + 1, Len(s)), sep)

\* sep.join(parts)
RECURSIVE join(_, _)
join(parts, sep) ==
    IF Len(parts) = 0 THEN <<>>
    ELSE IF Len(parts) = 1 THEN parts[1]
    ELSE parts[1] \o <<sep>> \o join(Tail(parts), sep)

Range(f) == {f[i] : i \in DOMAIN f}

RECURSIVE UniqueSeq(_)
\* the first occurrences of the elements of seq, in order
UniqueSeq(seq) ==
    IF Len(seq) = 0 THEN <<>>
    ELSE LET init == UniqueSeq(SubSeq(seq, 1, Len(seq) - 1))
             last == seq[Len(seq)]
         IN  IF last \in Range(init) THEN init ELSE Append(init, last)

\* all sequences over S of length at most n
SeqsUpTo(S, n) == UNION {[1..k -> S] : k \in 0..n}

-----------------------------------------------------------------------------
(* Campaigns and question codes *)

CampaignCode ==
    <<"what_young_people_want", "economic_empowerment_mexico",
      "what_women_want_pakistan">>

Campaigns == Range(CampaignCode)

\* helpers.get_campaign_q_codes
get_campaign_q_codes(campaign_code) ==
    IF campaign_code = "economic_empowerment_mexico"
    THEN <<"q1", "q2">>
    ELSE <<"q1">>

-----------------------------------------------------------------------------
(* get_top_level *)

EmptyDict == [x \in {} |-> x]

\* dict.get(key, default)
DictGet(d, key, default) == IF key \in DOMAIN d THEN d[key] ELSE default

get_mapping_to_top_level(campaign_code) == category_mapping[campaign_code]

\* as get_top_level, without the sort: top levels in order of first occurrence
get_top_level_unsorted(leaf_categories, campaign_code) ==
    LET mapping_to_top_level == get_mapping_to_top_level(campaign_code)
        categories == split(leaf_categories, "/")
        top_levels ==
            UniqueSeq([i \in 1..Len(categories) |->
                          DictGet(mapping_to_top_level, categories[i], categories[i])])
    IN  join(top_levels, "/")

get_top_level(leaf_categories, campaign_code) ==
    LET mapping_to_top_level == get_mapping_to_top_level(campaign_code)
        categories == split(leaf_categories, "/")
        top_levels ==
            sorted({DictGet(mapping_to_top_level, categories[i], categories[i]) :
                        i \in 1..Len(categories)})
    IN  join(top_levels, "/")

-----------------------------------------------------------------------------
(* get_age_bucket, filter_ages_10_to_24 *)

Bucket55 == <<"5", "5", "+">>
Bucket45 == <<"4", "5", "-", "5", "4">>
Bucket35 == <<"3", "5", "-", "4", "4">>
Bucket25 == <<"2", "5", "-", "3", "4">>
Bucket20 == <<"2", "0", "-", "2", "4">>
Bucket15 == <<"1", "5", "-", "1", "9">>
BucketNA == <<"N", "/", "A">>

\* 58-71: the bucket of an integer age
bucket_of_int(n) ==
    IF n >= 55 THEN PyStr(Bucket55)
    ELSE IF n >= 45 THEN PyStr(Bucket45)
    ELSE IF n >= 35 THEN PyStr(Bucket35)
    ELSE IF n >= 25 THEN PyStr(Bucket25)
    ELSE IF n >= 20 THEN PyStr(Bucket20)
    ELSE IF n >= 15 THEN PyStr(Bucket15)
    ELSE PyStr(BucketNA)

get_age_bucket(age) ==
    IF age = None THEN age
    ELSE IF IsStr(age)
    THEN IF isnumeric(age.s)
         THEN LET a == int(age.s)
              IN  IF IsRaised(a) THEN a ELSE bucket_of_int(a.n)
         ELSE age
    ELSE bucket_of_int(age.n)

filter_ages_10_to_24(age) ==
    IF IsStr(age) /\ isnumeric(age.s)
    THEN LET age_int == int(age.s)
         IN  IF IsRaised(age_int) THEN age_int
             ELSE IF 10 <= age_int.n /\ age_int.n <= 24 THEN age
             ELSE NaN
    ELSE NaN

-----------------------------------------------------------------------------
(* Data frames: a frame is a sequence of rows; a row is a record.  The     *)
(* per-question columns of a row are row.cols[q].  A cell that the row      *)
(* does not set is NaN, and a column exists when some row sets it.          *)

UNCODABLE == <<"U", "N", "C", "O", "D", "A", "B", "L", "E">>
OTHERQUESTIONABLE ==
    <<"O", "T", "H", "E", "R", "Q", "U", "E", "S", "T", "I", "O", "N", "A", "B", "L", "E">>
NOTRELATED == <<"N", "O", "T", "R", "E", "L", "A", "T", "E", "D">>
ENVIRONMENT == <<"E", "N", "V", "I", "R", "O", "N", "M", "E", "N", "T">>
SAFETY == <<"S", "A", "F", "E", "T", "Y">>

\* constants.COUNTRIES_DATA: alpha-2 code -> reference data
COUNTRIES_DATA ==
    (<<"M", "X">> :> [name |-> <<"M", "e", "x", "i", "c", "o">>,
                      demonym |-> <<"M", "e", "x", "i", "c", "a", "n">>])
    @@ (<<"P", "K">> :> [name |-> <<"P", "a", "k", "i", "s", "t", "a", "n">>,
                         demonym |-> <<"P", "a", "k", "i", "s", "t", "a", "n", "i">>])

\* ids of campaign_crud.get_responses_sample_columns()
responses_sample_column_ids(campaign_code) ==
    IF campaign_code = "economic_empowerment_mexico"
    THEN {"gender", "profession"}
    ELSE IF campaign_code = "what_young_people_want"
    THEN {"gender"}
    ELSE {}

\* truth value of a cell that is None or a str
Truthy(v) == IsStr(v) /\ Len(v.s) > 0

RECURSIVE FilterSeq(_, _)
\* the elements of seq at the indices in keep, in order
FilterSeq(seq, keep) ==
    IF Len(seq) = 0 THEN <<>>
    ELSE LET init == FilterSeq(SubSeq(seq, 1, Len(seq) - 1), keep)
         IN  IF Len(seq) \in keep THEN Append(init, seq[Len(seq)]) ELSE init

Count(seq, v) == Cardinality({i \in 1..Len(seq) : seq[i] = v})

FirstIndex(seq, v) == CHOOSE i \in 1..Len(seq) : seq[i] = v /\ \A j \in 1..(i - 1) : seq[j] # v

RECURSIVE ByCount(_, _)
\* the values of S by descending count in seq, ties by first occurrence
ByCount(S, seq) ==
    IF S = {} THEN <<>>
    ELSE LET m == CHOOSE x \in S : \A y \in S \ {x} :
                      \/ Count(seq, x) > Count(seq, y)
                      \/ Count(seq, x) = Count(seq, y)
                         /\ FirstIndex(seq, x) < FirstIndex(seq, y)
         IN  <<m>> \o ByCount(S \ {m}, seq)

\* Series.value_counts().index: the non-null values by descending count
value_counts_index(column) ==
    LET present == FilterSeq(column, {i \in 1..Len(column) : IsStr(column[i])})
    IN  ByCount(Range(present), present)

\* the frame of the rows the warehouse query returns: the q1 columns are set
FrameRow(raw) ==
    [cols |-> ("q1" :> [raw_response |-> PyStr(raw.q1_raw_response),
                        lemmatized |-> PyStr(raw.q1_lemmatized),
                        canonical_code |-> PyStr(raw.q1_canonical_code),
                        original_language |-> PyStr(raw.q1_original_language)]),
     tokenized |-> EmptyDict,
     top_level |-> EmptyDict,
     alpha2country |-> raw.alpha2country,
     canonical_country |-> <<>>,
     region |-> raw.region,
     age |-> raw.age,
     gender |-> raw.gender,
     profession |-> raw.profession,
     additional_fields |-> raw.additional_fields]

\* the q1 columns come from the query; a later column exists when a row sets it
ColExists(df, q_code, col) ==
    \/ q_code = "q1"
    \/ \E i \in 1..Len(df) : q_code \in DOMAIN df[i].cols /\ df[i].cols[q_code][col] # NaN

\* the cell of a row in a column of the frame
Cell(row, q_code, col) ==
    IF q_code \in DOMAIN row.cols THEN row.cols[q_code][col] ELSE NaN

-----------------------------------------------------------------------------
(* populate_additional_q_columns *)

\* additional_fields.get(f"{q_code}_response_{field}")
AdditionalGet(additional_fields, q_code, field) ==
    IF q_code \in DOMAIN additional_fields.obj
    THEN additional_fields.obj[q_code][field]
    ELSE None

\* json.loads(row["additional_fields"]) raises on a payload that is not JSON
JsonLoadsRaises(row) == row.additional_fields.kind # "json"

populate_additional_q_columns(row, campaign_code, q_code) ==
    LET additional_fields == row.additional_fields
        response_original_text == AdditionalGet(additional_fields, q_code, "original_text")
        response_english_text == AdditionalGet(additional_fields, q_code, "english_text")
        response_lemmatized_text == AdditionalGet(additional_fields, q_code, "lemmatized_text")
        response_nlu_category == AdditionalGet(additional_fields, q_code, "nlu_category")
        response_original_lang == AdditionalGet(additional_fields, q_code, "original_lang")
        raw_response ==
            IF campaign_code = "economic_empowerment_mexico"
            THEN IF Truthy(response_original_text) /\ Truthy(response_english_text)
                 THEN PyStr(response_original_text.s \o <<" ", "(">>
                            \o response_english_text.s \o <<")">>)
                 ELSE IF Truthy(response_original_text)
                 THEN response_original_text
                 ELSE NaN
            ELSE response_original_text
    IN  [row EXCEPT !.cols =
            (q_code :> [raw_response |-> raw_response,
                        lemmatized |->
                            IF Truthy(response_lemmatized_text)
                            THEN response_lemmatized_text ELSE NaN,
                        canonical_code |->
                            IF Truthy(response_nlu_category)
                            THEN response_nlu_category ELSE NaN,
                        original_language |->
                            IF Truthy(response_original_lang)
                            THEN response_original_lang ELSE NaN])
            @@ row.cols]

-----------------------------------------------------------------------------
(* CampaignCRUD: the artifacts stored for one campaign *)

Unset == [set |-> FALSE]
Stored(v) == [set |-> TRUE, v |-> v]

EmptyCampaign ==
    [ages |-> Unset, countries |-> Unset, genders |-> Unset, professions |-> Unset,
     dataframe |-> Unset, q1_ngrams_unfiltered |-> Unset, q2_ngrams_unfiltered |-> Unset]

Age(code, name) == [code |-> code, name |-> name]
Gender(code, name) == [code |-> code, name |-> name]
Profession(code, name) == [code |-> code, name |-> name]
Region(code, name) == [code |-> code, name |-> name]
Country(alpha2_code, name, demonym) ==
    [alpha2_code |-> alpha2_code, name |-> name, demonym |-> demonym, regions |-> <<>>]

-----------------------------------------------------------------------------
(* load_campaign_data *)

MapRows(df, F(_)) == [i \in 1..Len(df) |-> F(df[i])]

\* as remove_uncodable, but looking at q1 only
remove_uncodable_q1_only(df, campaign_q_codes) ==
    FilterSeq(df,
              {i \in 1..Len(df) :
                   Cell(df[i], "q1", "canonical_code") # PyStr(UNCODABLE)})

\* 194-200: the rows whose canonical code is not UNCODABLE for any question
remove_uncodable(df, campaign_q_codes) ==
    FilterSeq(df,
              {i \in 1..Len(df) :
                   \A q \in Range(campaign_q_codes) :
                       Cell(df[i], q, "canonical_code") # PyStr(UNCODABLE)})

\* as rename_otherquestionable, but renaming in q1 only
rename_otherquestionable_q1_only(df, campaign_q_codes) ==
    LET RenameRow(row) ==
            IF Cell(row, "q1", "canonical_code") = PyStr(OTHERQUESTIONABLE)
            THEN [row EXCEPT !.cols["q1"].canonical_code = PyStr(NOTRELATED)]
            ELSE row
    IN  MapRows(df, RenameRow)

\* 213-219: canonical code OTHERQUESTIONABLE becomes NOTRELATED
rename_otherquestionable(df, campaign_q_codes) ==
    LET RenameRow(row) ==
            [row EXCEPT !.cols =
                [q \in DOMAIN row.cols |->
                    IF /\ q \in Range(campaign_q_codes)
                       /\ row.cols[q].canonical_code = PyStr(OTHERQUESTIONABLE)
                    THEN [row.cols[q] EXCEPT !.canonical_code = PyStr(NOTRELATED)]
                    ELSE row.cols[q]]]
    IN  MapRows(df, RenameRow)

RECURSIVE PopulateAll(_, _, _)
\* the loop over the question codes after q1 for one row
PopulateAll(row, campaign_code, q_codes) ==
    IF Len(q_codes) = 0 THEN row
    ELSE PopulateAll(populate_additional_q_columns(row, campaign_code, q_codes[1]),
                     campaign_code, Tail(q_codes))

RECURSIVE AddRegions(_, _)
\* appends the regions of the (alpha2country, region) pairs to their countries
AddRegions(countries, pairs) ==
    IF Len(pairs) = 0 THEN countries
    ELSE LET alpha2_code == pairs[1][1]
             region == pairs[1][2]
         IN  IF Truthy(region)
             THEN AddRegions(
                      [k \in 1..Len(countries) |->
                          IF countries[k].alpha2_code = alpha2_code
                          THEN [countries[k] EXCEPT
                                    !.regions = Append(@, Region(region.s, region.s))]
                          ELSE countries[k]],
                      Tail(pairs))
             ELSE AddRegions(countries, Tail(pairs))

\* The steps of load_campaign_data, the last one first. Each takes the frame
\* as the step before it left it and yields the outcome of the call: exc is
\* "none" when the call returns and names the step that raised otherwise;
\* crud is what the campaign's store holds after.

\* 253-275: the countries, genders, professions and the frame are stored
set_artifacts(campaign_code, df_responses, countries, crud) ==
    LET column_ids == responses_sample_column_ids(campaign_code)
        gender_index ==
            value_counts_index([i \in 1..Len(df_responses) |-> df_responses[i].gender])
        genders ==
            IF "gender" \in column_ids
            THEN LET kept == FilterSeq(gender_index,
                                       {i \in 1..Len(gender_index) :
                                            Len(gender_index[i].s) > 0})
                 IN  [i \in 1..Len(kept) |-> Gender(kept[i].s, kept[i].s)]
            ELSE <<>>
        profession_index ==
            value_counts_index([i \in 1..Len(df_responses) |-> df_responses[i].profession])
        professions ==
            IF "profession" \in column_ids
            THEN [i \in 1..Len(profession_index) |->
                     Profession(profession_index[i].s, profession_index[i].s)]
            ELSE <<>>
    IN  [exc |-> "none",
         crud |-> [crud EXCEPT
                       !.countries = Stored(countries),
                       !.genders = Stored(genders),
                       !.professions = Stored(professions),
                       !.dataframe = Stored(df_responses)]]

\* 227-250: create countries, add regions to countries
create_countries(campaign_code, df_responses, crud) ==
    LET countries_alpha2_codes ==
            UniqueSeq([i \in 1..Len(df_responses) |-> df_responses[i].alpha2country])
        known_alpha2_codes ==
            FilterSeq(countries_alpha2_codes,
                      {i \in 1..Len(countries_alpha2_codes) :
                           countries_alpha2_codes[i] \in DOMAIN COUNTRIES_DATA})
        countries_created ==
            [i \in 1..Len(known_alpha2_codes) |->
                Country(known_alpha2_codes[i],
                        COUNTRIES_DATA[known_alpha2_codes[i]].name,
                        COUNTRIES_DATA[known_alpha2_codes[i]].demonym)]
        unique_canonical_country_region ==
            UniqueSeq([i \in 1..Len(df_responses) |->
                          <<df_responses[i].alpha2country, df_responses[i].region>>])
        regions_raise ==
            \E i \in 1..Len(unique_canonical_country_region) :
                /\ Truthy(unique_canonical_country_region[i][2])
                /\ unique_canonical_country_region[i][1] \notin Range(known_alpha2_codes)
    IN  IF regions_raise THEN [exc |-> "regions", crud |-> crud]
        ELSE set_artifacts(campaign_code, df_responses,
                           AddRegions(countries_created, unique_canonical_country_region),
                           crud)

\* 221-225: add top_level column
add_top_level(campaign_code, df_renamed, crud) ==
    LET QCodes == Range(get_campaign_q_codes(campaign_code))
        top_level_raises ==
            \E q \in QCodes : \E i \in 1..Len(df_renamed) :
                ~IsStr(Cell(df_renamed[i], q, "canonical_code"))
        TopLevelRow(row) ==
            [row EXCEPT !.top_level =
                [q \in QCodes |->
                    get_top_level(Cell(row, q, "canonical_code").s, campaign_code)]]
    IN  IF top_level_raises THEN [exc |-> "top_level", crud |-> crud]
        ELSE create_countries(campaign_code, MapRows(df_renamed, TopLevelRow), crud)

\* 194-219: remove the UNCODABLE responses, rewrite ENVIRONMENT to SAFETY for
\* what_young_people_want, rename OTHERQUESTIONABLE; code_columns are the
\* question codes whose canonical_code column the frame has
recode(campaign_code, df_aged, code_columns, crud) ==
    LET campaign_q_codes == get_campaign_q_codes(campaign_code)
        uncodable_raises == \E q \in Range(campaign_q_codes) : q \notin code_columns
        RemapRow(row) ==
            IF /\ campaign_code = "what_young_people_want"
               /\ Cell(row, "q1", "canonical_code") = PyStr(ENVIRONMENT)
            THEN [row EXCEPT !.cols["q1"].canonical_code = PyStr(SAFETY)]
            ELSE row
    IN  IF uncodable_raises THEN [exc |-> "uncodable", crud |-> crud]
        ELSE add_top_level(
                 campaign_code,
                 rename_otherquestionable(
                     MapRows(remove_uncodable(df_aged, campaign_q_codes), RemapRow),
                     campaign_q_codes),
                 crud)

\* 189-192: set ages
set_ages(campaign_code, df_aged, code_columns, crud) ==
    LET unique_ages == UniqueSeq([i \in 1..Len(df_aged) |-> df_aged[i].age])
        present_ages ==
            FilterSeq(unique_ages, {i \in 1..Len(unique_ages) : unique_ages[i] # None})
        ages == [i \in 1..Len(present_ages) |-> Age(present_ages[i], present_ages[i])]
    IN  recode(campaign_code, df_aged, code_columns, [crud EXCEPT !.ages = Stored(ages)])

\* 180-187: only keep ages 10-24 for what_young_people_want, modify age into
\* age bucket for the other campaigns
modify_ages(campaign_code, df_country, code_columns, crud) ==
    LET is_wypw == campaign_code = "what_young_people_want"
        NewAge(row) ==
            IF is_wypw THEN filter_ages_10_to_24(row.age) ELSE get_age_bucket(row.age)
        age_raises == \E i \in 1..Len(df_country) : IsRaised(NewAge(df_country[i]))
        AgeRow(row) == [row EXCEPT !.age = NewAge(row)]
        df_age_applied == MapRows(df_country, AgeRow)
        df_aged ==
            IF is_wypw
            THEN FilterSeq(df_age_applied,
                           {i \in 1..Len(df_age_applied) :
                                df_age_applied[i].age \notin {NaN, None}})
            ELSE df_age_applied
    IN  IF age_raises THEN [exc |-> "age", crud |-> crud]
        ELSE set_ages(campaign_code, df_aged, code_columns, crud)

\* 175-178: add canonical_country column
add_canonical_country(campaign_code, df_tokenized, code_columns, crud) ==
    LET country_raises ==
            \E i \in 1..Len(df_tokenized) :
                df_tokenized[i].alpha2country \notin DOMAIN COUNTRIES_DATA
        CountryRow(row) ==
            [row EXCEPT !.canonical_country = COUNTRIES_DATA[row.alpha2country].name]
    IN  IF country_raises THEN [exc |-> "canonical_country", crud |-> crud]
        ELSE modify_ages(campaign_code, MapRows(df_tokenized, CountryRow),
                         code_columns, crud)

\* 169-173: add tokenized column
add_tokenized(campaign_code, df_populated, crud) ==
    LET QCodes == Range(get_campaign_q_codes(campaign_code))
        tokenize_raises ==
            \E q \in QCodes :
                \/ ~ColExists(df_populated, q, "lemmatized")
                \/ \E i \in 1..Len(df_populated) :
                       ~IsStr(Cell(df_populated[i], q, "lemmatized"))
        TokenizeRow(row) ==
            [row EXCEPT !.tokenized =
                [q \in QCodes |-> split(Cell(row, q, "lemmatized").s, " ")]]
    IN  IF tokenize_raises THEN [exc |-> "tokenize", crud |-> crud]
        ELSE add_canonical_country(
                 campaign_code, MapRows(df_populated, TokenizeRow),
                 {q \in QCodes : ColExists(df_populated, q, "canonical_code")}, crud)

\* 154-167: populate columns for the question codes after q1
populate_columns(campaign_code, df_fetched, crud) ==
    LET later_q_codes ==
            SelectSeq(get_campaign_q_codes(campaign_code), LAMBDA q : q # "q1")
        populate_raises ==
            Len(later_q_codes) > 0
            /\ \E i \in 1..Len(df_fetched) : JsonLoadsRaises(df_fetched[i])
        PopulateRow(row) == PopulateAll(row, campaign_code, later_q_codes)
    IN  IF populate_raises THEN [exc |-> "populate", crud |-> crud]
        ELSE add_tokenized(campaign_code, MapRows(df_fetched, PopulateRow), crud)

\* 140-152: get the dataframe from BigQuery, then the steps above
load_campaign_data(campaign_code, fetched, crud) ==
    IF ~fetched.ok THEN [exc |-> "fetch", crud |-> crud]
    ELSE populate_columns(campaign_code, MapRows(fetched.table, FrameRow), crud)

-----------------------------------------------------------------------------
(* load_campaign_ngrams_unfiltered *)

CAMPAIGNS_WITH_Q2 == {"economic_empowerment_mexico"}

\* the counts of the contiguous windows of n tokens over the rows of df
NgramCounts(df, q_code, n) ==
    LET windows ==
            UNION {{<<i, k>> : k \in 1..(Len(df[i].tokenized[q_code]) - n + 1)} :
                       i \in 1..Len(df)}
        Gram(w) == SubSeq(df[w[1]].tokenized[q_code], w[2], w[2] + n - 1)
    IN  [g \in {Gram(w) : w \in windows} |->
            Cardinality({w \in windows : Gram(w) = g})]

\* CampaignService.generate_ngrams
generate_ngrams(df, q_code) ==
    [unigram |-> NgramCounts(df, q_code, 1),
     bigram |-> NgramCounts(df, q_code, 2),
     trigram |-> NgramCounts(df, q_code, 3)]

load_campaign_ngrams_unfiltered(campaign_code, crud) ==
    IF ~crud.dataframe.set THEN [exc |-> "get_dataframe", crud |-> crud]
    ELSE LET df == crud.dataframe.v
             crud_q1 ==
                 [crud EXCEPT !.q1_ngrams_unfiltered = Stored(generate_ngrams(df, "q1"))]
         IN  [exc |-> "none",
              crud |-> IF campaign_code \in CAMPAIGNS_WITH_Q2
                       THEN [crud_q1 EXCEPT
                                !.q2_ngrams_unfiltered = Stored(generate_ngrams(df, "q2"))]
                       ELSE crud_q1]

-----------------------------------------------------------------------------
(* Calls of the age functions on one drawn argument *)

AgeChars == DecimalDigits \cup {"n", "-", ".", "½"}

AgeInputs ==
    {None}
    \cup {PyInt(n) : n \in 0..MaxIntAge}
    \cup {PyStr(s) : s \in SeqsUpTo(AgeChars, MaxAgeLen)}

AgeIdle == age_in = None /\ age_out = Pending /\ age_filtered = Pending

CallGetAgeBucket ==
    /\ age_out = Pending
    /\ age_out' = get_age_bucket(age_in)
    /\ UNCHANGED <<age_in, age_filtered, category_mapping, pqVars, topVars, warehouse, store,
                   lcd_result, lcVars, ldVars, coordVars>>

CallFilterAges ==
    /\ age_filtered = Pending
    /\ age_filtered' = filter_ages_10_to_24(age_in)
    /\ UNCHANGED <<age_in, age_out, category_mapping, pqVars, topVars, warehouse, store,
                   lcd_result, lcVars, ldVars, coordVars>>

-----------------------------------------------------------------------------
(* Repeated application of get_top_level to one drawn argument *)

LeafCodes == {<<"A">>, <<"B">>, <<"C">>}

LeafChars == {"A", "B", "C", "/"}

RECURSIVE Up(_, _, _)
\* the code n steps up from a code in a dict of parents
Up(m, code, n) == IF n = 0 THEN code ELSE Up(m, DictGet(m, code, code), n - 1)

\* no code is above itself, other than a code mapped to itself
IsHierarchy(m) ==
    \A code \in DOMAIN m :
        m[code] # code => \A n \in 1..Cardinality(LeafCodes) : Up(m, code, n) # code

\* the dicts from some of the codes to the code above them
Mappings == {m \in UNION {[D -> LeafCodes] : D \in SUBSET LeafCodes} : IsHierarchy(m)}

TopLevelInputs == SeqsUpTo(LeafChars, MaxLeafLen)

TopLevelIdle ==
    /\ category_mapping = [c \in Campaigns |-> EmptyDict]
    /\ tl_campaign = CampaignCode[1]
    /\ tl_hist = <<>>

ApplyGetTopLevel ==
    /\ Len(tl_hist) >= 1
    /\ Len(tl_hist) <= MaxApply
    /\ tl_hist' = Append(tl_hist, get_top_level(tl_hist[Len(tl_hist)], tl_campaign))
    /\ UNCHANGED <<ageVars, category_mapping, pqVars, tl_campaign, warehouse, store,
                   lcd_result, lcVars, ldVars, coordVars>>

-----------------------------------------------------------------------------
(* Raw tables *)

A_CODE == <<"A">>
B_SLASH_A == <<"B", "/", "A">>
MX == <<"M", "X">>
XX == <<"X", "X">>
R1 == <<"R", "1">>
R2 == <<"R", "2">>

\* the category hierarchy of the campaigns under load
CampaignMapping == (<<"B">> :> <<"C">>)

Q2Fields(original_text, english_text, lemmatized_text, nlu_category, original_lang) ==
    [kind |-> "json",
     obj |-> ("q2" :> [original_text |-> original_text,
                       english_text |-> english_text,
                       lemmatized_text |-> lemmatized_text,
                       nlu_category |-> nlu_category,
                       original_lang |-> original_lang])]

AFCategory(cat) ==
    Q2Fields(PyStr(<<"o">>), PyStr(<<"e">>), PyStr(<<"c", " ", "d">>), cat,
             PyStr(<<"e", "s">>))
AFNoLemmatized ==
    Q2Fields(PyStr(<<"o">>), PyStr(<<"e">>), None, PyStr(A_CODE), PyStr(<<"e", "s">>))
AFNoKeys == [kind |-> "json", obj |-> EmptyDict]
AFMalformed == [kind |-> "malformed"]

RawRow(code, age, country, region, gender, additional_fields) ==
    [q1_raw_response |-> <<"r">>,
     q1_original_language |-> <<"e", "n">>,
     q1_canonical_code |-> code,
     q1_lemmatized |-> <<"a", " ", "b">>,
     alpha2country |-> country,
     region |-> region,
     age |-> age,
     gender |-> gender,
     profession |-> PyStr(<<"P">>),
     additional_fields |-> additional_fields]

Q1Codes == {UNCODABLE, OTHERQUESTIONABLE, ENVIRONMENT, B_SLASH_A}

AdditionalFields(campaign_code) ==
    IF campaign_code = "economic_empowerment_mexico"
    THEN {AFCategory(PyStr(A_CODE)), AFCategory(PyStr(UNCODABLE)),
          AFCategory(PyStr(OTHERQUESTIONABLE)), AFCategory(None),
          AFNoLemmatized, AFMalformed}
    ELSE {AFNoKeys}

RowAges ==
    {None, PyStr(<<"9">>), PyStr(<<"1", "0">>), PyStr(<<"2", "4">>),
     PyStr(<<"2", "5">>), PyStr(<<"n">>), PyStr(<<"½">>)}

BaseAF(campaign_code) ==
    IF campaign_code = "economic_empowerment_mexico"
    THEN AFCategory(PyStr(A_CODE)) ELSE AFNoKeys

\* the rows a raw table of the campaign is drawn from
RawRows(campaign_code) ==
    {RawRow(code, PyStr(<<"2", "4">>), MX, PyStr(R1), PyStr(<<"F">>), af) :
         code \in Q1Codes \ {ENVIRONMENT}, af \in AdditionalFields(campaign_code)}
    \cup {RawRow(code, age, MX, PyStr(R1), PyStr(<<"F">>), BaseAF(campaign_code)) :
              code \in {OTHERQUESTIONABLE, B_SLASH_A}, age \in RowAges}
    \cup {RawRow(code, PyStr(<<"1", "0">>), MX, PyStr(R1), PyStr(<<"F">>),
                 BaseAF(campaign_code)) :
              code \in {UNCODABLE, ENVIRONMENT}}
    \cup {RawRow(B_SLASH_A, PyStr(<<"2", "4">>), country, region, gender,
                 BaseAF(campaign_code)) :
              country \in {MX, XX}, region \in {None, PyStr(R1), PyStr(R2)},
              gender \in {PyStr(<<"F">>)}}
    \cup {RawRow(B_SLASH_A, PyStr(<<"2", "4">>), MX, PyStr(R1), gender,
                 BaseAF(campaign_code)) :
              gender \in {None, PyStr(<<"M">>)}}

RawTables(campaign_code) == SeqsUpTo(RawRows(campaign_code), MaxRows)

-----------------------------------------------------------------------------
(* Direct calls of load_campaign_data on one campaign *)

LoadIdle ==
    /\ lc_campaign = CampaignCode[1]
    /\ lc_calls = 0

\* the artifacts of a campaign that CampaignCRUD holds
Artifacts == {"ages", "countries", "genders", "professions", "dataframe", "ngrams"}

\* the artifacts load_campaign_data has set when it ends with exc: set_ages
\* (192) comes before the UNCODABLE removal, the other four (253-275) last
ArtifactsSet(exc) ==
    IF exc = "none" THEN Artifacts \ {"ngrams"}
    ELSE IF exc \in {"uncodable", "top_level", "regions"} THEN {"ages"}
    ELSE {}

\* written_in after the run has set the artifacts in done of the campaign
MarkWritten(campaign_code, done, run) ==
    [written_in EXCEPT ![campaign_code] =
        [a \in Artifacts |-> IF a \in done THEN run ELSE written_in[campaign_code][a]]]

LoadDataIdle ==
    /\ ld_pc = "idle"
    /\ ld_i = 1
    /\ ld_run = 0
    /\ ld_data_done = {}
    /\ ld_ngrams_done = {}
    /\ cache_clears = 0
    /\ api_cache = {}
    /\ written_in = [c \in Campaigns |-> [a \in Artifacts |-> 0]]
    /\ in_flight = {}

StoreIdle ==
    /\ warehouse = [c \in Campaigns |-> <<>>]
    /\ store = [c \in Campaigns |-> EmptyCampaign]
    /\ lcd_result = [c \in Campaigns |-> "not_called"]

\* get_campaign_df_from_bigquery returns the table or raises
Fetch(campaign_code, ok) == [ok |-> ok, table |-> warehouse[campaign_code]]

CallLoadCampaignData ==
    /\ lc_calls < MaxLoads
    /\ \E ok \in BOOLEAN :
           LET r == load_campaign_data(lc_campaign, Fetch(lc_campaign, ok),
                                       store[lc_campaign])
           IN  /\ store' = [store EXCEPT ![lc_campaign] = r.crud]
               /\ lcd_result' = [lcd_result EXCEPT ![lc_campaign] = r.exc]
    /\ lc_calls' = lc_calls + 1
    /\ UNCHANGED <<ageVars, category_mapping, pqVars, topVars, warehouse, lc_campaign, ldVars, coordVars>>

-----------------------------------------------------------------------------
(* load_data: load_all_campaigns_data, load_all_campaigns_ngrams_unfiltered *)
(* and the clear of the ApiCache, with API requests filling the cache       *)

\* ApiCache.clear_cache
clear_cache(cache) == {}

CacheKeys == Campaigns

\* a run of load_data starts (at start-up and at every scheduled reload)
StartLoadData ==
    /\ ld_pc \in {"idle", "done", "failed"}
    /\ ld_run < MaxRuns
    /\ ld_pc' = "data"
    /\ ld_i' = 1
    /\ ld_run' = ld_run + 1
    /\ ld_data_done' = {}
    /\ ld_ngrams_done' = {}
    /\ cache_clears' = 0
    /\ lcd_result' = [c \in Campaigns |-> "not_called"]
    /\ UNCHANGED <<ageVars, category_mapping, pqVars, topVars, warehouse, store, lcVars, coordVars, api_cache,
                   written_in, in_flight>>

\* as LoadAllCampaignsDataStep, with the n-gram loop started as soon as the
\* first campaign is loaded
LoadAllCampaignsDataStepNgramsEarly ==
    /\ ld_pc = "data"
    /\ LET campaign_code == CampaignCode[ld_i]
       IN  \E ok \in BOOLEAN :
               LET r == load_campaign_data(campaign_code, Fetch(campaign_code, ok),
                                           store[campaign_code])
               IN  /\ store' = [store EXCEPT ![campaign_code] = r.crud]
                   /\ lcd_result' = [lcd_result EXCEPT ![campaign_code] = r.exc]
                   /\ written_in' = MarkWritten(campaign_code, ArtifactsSet(r.exc), ld_run)
                   /\ IF r.exc # "none"
                      THEN /\ ld_pc' = "failed"
                           /\ UNCHANGED <<ld_i, ld_data_done>>
                      ELSE /\ ld_data_done' = ld_data_done \cup {campaign_code}
                           /\ ld_pc' = "ngrams"
                           /\ ld_i' = 1
    /\ UNCHANGED <<ageVars, category_mapping, pqVars, topVars, warehouse, lcVars, coordVars, ld_run,
                   ld_ngrams_done, cache_clears, api_cache, in_flight>>

\* one iteration of the loop of load_all_campaigns_data; an exception of
\* load_campaign_data leaves the loop and load_data
LoadAllCampaignsDataStep ==
    /\ ld_pc = "data"
    /\ LET campaign_code == CampaignCode[ld_i]
       IN  \E ok \in BOOLEAN :
               LET r == load_campaign_data(campaign_code, Fetch(campaign_code, ok),
                                           store[campaign_code])
               IN  /\ store' = [store EXCEPT ![campaign_code] = r.crud]
                   /\ lcd_result' = [lcd_result EXCEPT ![campaign_code] = r.exc]
                   /\ written_in' = MarkWritten(campaign_code, ArtifactsSet(r.exc), ld_run)
                   /\ IF r.exc # "none"
                      THEN /\ ld_pc' = "failed"
                           /\ UNCHANGED <<ld_i, ld_data_done>>
                      ELSE /\ ld_data_done' = ld_data_done \cup {campaign_code}
                           /\ IF ld_i = Len(CampaignCode)
                              THEN ld_pc' = "ngrams" /\ ld_i' = 1
                              ELSE ld_pc' = "data" /\ ld_i' = ld_i + 1
    /\ UNCHANGED <<ageVars, category_mapping, pqVars, topVars, warehouse, lcVars, coordVars, ld_run,
                   ld_ngrams_done, cache_clears, api_cache, in_flight>>

\* one iteration of the loop of load_all_campaigns_ngrams_unfiltered
LoadAllCampaignsNgramsStep ==
    /\ ld_pc = "ngrams"
    /\ LET campaign_code == CampaignCode[ld_i]
           r == load_campaign_ngrams_unfiltered(campaign_code, store[campaign_code])
       IN  /\ store' = [store EXCEPT ![campaign_code] = r.crud]
           /\ written_in' =
                  MarkWritten(campaign_code,
                              IF r.exc = "none" THEN {"ngrams"} ELSE {}, ld_run)
           /\ IF r.exc # "none"
              THEN /\ ld_pc' = "failed"
                   /\ UNCHANGED <<ld_i, ld_ngrams_done>>
              ELSE /\ ld_ngrams_done' = ld_ngrams_done \cup {campaign_code}
                   /\ IF ld_i = Len(CampaignCode)
                      THEN ld_pc' = "clear" /\ ld_i' = 1
                      ELSE ld_pc' = "ngrams" /\ ld_i' = ld_i + 1
    /\ UNCHANGED <<ageVars, category_mapping, pqVars, topVars, warehouse, lcd_result, lcVars, coordVars,
                   ld_run, ld_data_done, cache_clears, api_cache, in_flight>>

\* ApiCache().clear_cache(), the last statement of load_data
ClearApiCache ==
    /\ ld_pc = "clear"
    /\ api_cache' = clear_cache(api_cache)
    /\ cache_clears' = cache_clears + 1
    /\ ld_pc' = "done"
    /\ UNCHANGED <<ageVars, category_mapping, pqVars, topVars, warehouse, store, lcd_result,
                   lcVars, coordVars, ld_i, ld_run, ld_data_done, ld_ngrams_done,
                   written_in, in_flight>>

\* ApiCache: the entry of a response; it records the run of load_data and
\* the number of clears of that run when it was put, and the run that set the
\* dataset the response was computed from
CacheEntry(key, data_run) ==
    [key |-> key, run |-> ld_run, clears |-> cache_clears, data_run |-> data_run]

\* ApiCache: put of an entry under its key
cache_put(cache, entry) == {e \in cache : e.key # entry.key} \cup {entry}

\* an API request whose response is not cached reads the stored dataset of
\* its campaign, once there is one, to compute the response
ApiRequest(key) ==
    /\ \A e \in api_cache : e.key # key
    /\ store[key].dataframe.set
    /\ Cardinality(in_flight) < MaxInFlight
    /\ \A r \in in_flight : r.key # key
    /\ in_flight' = in_flight \cup {[key |-> key, data_run |-> written_in[key]["dataframe"]]}
    /\ UNCHANGED <<ageVars, category_mapping, pqVars, topVars, warehouse, store, lcd_result,
                   lcVars, coordVars, ld_pc, ld_i, ld_run, ld_data_done, ld_ngrams_done,
                   cache_clears, api_cache, written_in>>

\* the request puts the response it computed in the cache
ApiResponse(request) ==
    /\ request \in in_flight
    /\ in_flight' = in_flight \ {request}
    /\ api_cache' = cache_put(api_cache, CacheEntry(request.key, request.data_run))
    /\ UNCHANGED <<ageVars, category_mapping, pqVars, topVars, warehouse, store, lcd_result,
                   lcVars, coordVars, ld_pc, ld_i, ld_run, ld_data_done, ld_ngrams_done,
                   cache_clears, written_in>>

\* the raw tables of the campaigns during the runs of load_data
LoadDataTables(campaign_code) ==
    LET good == RawRow(B_SLASH_A, PyStr(<<"2", "4">>), MX, PyStr(R1), PyStr(<<"F">>),
                       BaseAF(campaign_code))
        uncodable == RawRow(UNCODABLE, PyStr(<<"1", "0">>), MX, PyStr(R2), PyStr(<<"M">>),
                            BaseAF(campaign_code))
        unknown == RawRow(B_SLASH_A, PyStr(<<"2", "4">>), XX, PyStr(R1), PyStr(<<"F">>),
                          BaseAF(campaign_code))
    IN  {<<good>>, <<uncodable, good>>, <<good, unknown>>}

-----------------------------------------------------------------------------
(* load_coordinates *)

PK == <<"P", "K">>

Coordinate(lat, lng) == [kind |-> "coordinate", lat |-> lat, lng |-> lng]

\* what googlemaps_interactions.get_coordinate can do for a location
GeocoderOutcomes == {Coordinate(2, 2), None, Raised("geocoder")}

focused_on_country_campaigns_codes ==
    <<"economic_empowerment_mexico", "what_women_want_pakistan">>

\* CampaignCRUD.get_countries_list
get_countries_list(crud) == IF crud.countries.set THEN crud.countries.v ELSE <<>>

\* dict truth value: a non-empty dict
DictTruthy(d) == DOMAIN d # {}

\* coordinates.get(alpha2_code), None as the empty dict
CountryCoordinates(dict, alpha2_code) == DictGet(dict, alpha2_code, EmptyDict)

\* 398-401: the coordinate of the location is already in the dict
CoordinateExists(dict, alpha2_code, location_name) ==
    LET country_coordinates == CountryCoordinates(dict, alpha2_code)
    IN  DictTruthy(country_coordinates) /\ location_name \in DOMAIN country_coordinates

\* 408-411: the dict with the coordinate of the location added
AddCoordinate(dict, alpha2_code, location_name, coordinate) ==
    LET country_coordinates ==
            IF ~DictTruthy(CountryCoordinates(dict, alpha2_code))
            THEN EmptyDict
            ELSE dict[alpha2_code]
        updated ==
            [n \in DOMAIN country_coordinates \cup {location_name} |->
                IF n = location_name THEN coordinate ELSE country_coordinates[n]]
    IN  [a \in DOMAIN dict \cup {alpha2_code} |->
            IF a = alpha2_code THEN updated ELSE dict[a]]

CoordIdle ==
    /\ globals_coordinates = EmptyDict
    /\ coordinates_json = EmptyDict
    /\ stage_is_dev = FALSE
    /\ coordinates = EmptyDict
    /\ coordinates_is_global = FALSE
    /\ new_coordinates_added = FALSE
    /\ lco_pc = "idle"
    /\ lco_i = 1
    /\ lco_j = 1
    /\ lco_locations = <<>>
    /\ lco_passes = 0
    /\ coordinates_before = EmptyDict
    /\ geocoded = {}

otherThanCoordVars ==
    <<ageVars, category_mapping, pqVars, topVars, warehouse, store, lcd_result, lcVars, ldVars>>

\* 353-366: the pass starts with globals.coordinates, or with the file when
\* globals.coordinates is empty
StartLoadCoordinates ==
    /\ lco_pc \in {"idle", "done", "failed"}
    /\ lco_passes < MaxPasses
    /\ lco_passes' = lco_passes + 1
    /\ new_coordinates_added' = FALSE
    /\ IF DictTruthy(globals_coordinates)
       THEN coordinates' = globals_coordinates /\ coordinates_is_global' = TRUE
       ELSE coordinates' = coordinates_json /\ coordinates_is_global' = FALSE
    /\ coordinates_before' = coordinates'
    /\ geocoded' = {}
    /\ lco_pc' = "campaign"
    /\ lco_i' = 1
    /\ lco_j' = 1
    /\ lco_locations' = <<>>
    /\ UNCHANGED <<globals_coordinates, coordinates_json, stage_is_dev, otherThanCoordVars>>

\* 373-392: the next campaign and the locations of its first country
CoordinatesCampaignStep ==
    /\ lco_pc = "campaign"
    /\ IF lco_i > Len(focused_on_country_campaigns_codes)
       THEN /\ lco_pc' = "save"
            /\ UNCHANGED <<lco_i, lco_j, lco_locations>>
       ELSE LET campaign_code == focused_on_country_campaigns_codes[lco_i]
                countries == get_countries_list(store[campaign_code])
            IN  IF Len(countries) < 1
                THEN /\ lco_i' = lco_i + 1
                     /\ UNCHANGED <<lco_pc, lco_j, lco_locations>>
                ELSE /\ lco_locations' =
                            [k \in 1..Len(countries[1].regions) |->
                                [country_alpha2_code |-> countries[1].alpha2_code,
                                 country_name |-> countries[1].name,
                                 location |-> countries[1].regions[k].name]]
                     /\ lco_pc' = "location"
                     /\ lco_j' = 1
                     /\ UNCHANGED lco_i
    /\ UNCHANGED <<globals_coordinates, coordinates_json, stage_is_dev, coordinates,
                   coordinates_is_global, new_coordinates_added, lco_passes,
                   coordinates_before, geocoded, otherThanCoordVars>>

\* as CoordinatesLocationStep, without the test that the coordinate exists
CoordinatesLocationStepNoTest ==
    /\ lco_pc = "location"
    /\ IF lco_j > Len(lco_locations)
       THEN /\ lco_pc' = "campaign"
            /\ lco_i' = lco_i + 1
            /\ UNCHANGED <<lco_j, coordinates, globals_coordinates,
                           new_coordinates_added, geocoded>>
       ELSE LET location == lco_locations[lco_j]
                alpha2_code == location.country_alpha2_code
                location_name == location.location
            IN  \E coordinate \in GeocoderOutcomes :
                    /\ geocoded' = geocoded \cup {<<alpha2_code, location_name>>}
                    /\ IF IsRaised(coordinate)
                       THEN /\ lco_pc' = "failed"
                            /\ UNCHANGED <<lco_i, lco_j, coordinates,
                                           globals_coordinates, new_coordinates_added>>
                       ELSE /\ coordinates' = AddCoordinate(coordinates, alpha2_code,
                                                            location_name, coordinate)
                            /\ globals_coordinates' =
                                   IF coordinates_is_global THEN coordinates'
                                   ELSE globals_coordinates
                            /\ new_coordinates_added' = TRUE
                            /\ lco_j' = lco_j + 1
                            /\ UNCHANGED <<lco_pc, lco_i>>
    /\ UNCHANGED <<coordinates_json, stage_is_dev, coordinates_is_global, lco_locations,
                   lco_passes, coordinates_before, otherThanCoordVars>>

\* 393-414: one iteration of the loop over the locations; the local dict is
\* globals.coordinates itself when the pass started with it
CoordinatesLocationStep ==
    /\ lco_pc = "location"
    /\ IF lco_j > Len(lco_locations)
       THEN /\ lco_pc' = "campaign"
            /\ lco_i' = lco_i + 1
            /\ UNCHANGED <<lco_j, coordinates, globals_coordinates,
                           new_coordinates_added, geocoded>>
       ELSE LET location == lco_locations[lco_j]
                alpha2_code == location.country_alpha2_code
                location_name == location.location
            IN  IF CoordinateExists(coordinates, alpha2_code, location_name)
                THEN /\ lco_j' = lco_j + 1
                     /\ UNCHANGED <<lco_pc, lco_i, coordinates, globals_coordinates,
                                    new_coordinates_added, geocoded>>
                ELSE \E coordinate \in GeocoderOutcomes :
                         /\ geocoded' = geocoded \cup {<<alpha2_code, location_name>>}
                         /\ IF IsRaised(coordinate)
                            THEN /\ lco_pc' = "failed"
                                 /\ UNCHANGED <<lco_i, lco_j, coordinates,
                                                globals_coordinates,
                                                new_coordinates_added>>
                            ELSE /\ coordinates' =
                                        AddCoordinate(coordinates, alpha2_code,
                                                      location_name, coordinate)
                                 /\ globals_coordinates' =
                                        IF coordinates_is_global THEN coordinates'
                                        ELSE globals_coordinates
                                 /\ new_coordinates_added' = TRUE
                                 /\ lco_j' = lco_j + 1
                                 /\ UNCHANGED <<lco_pc, lco_i>>
    /\ UNCHANGED <<coordinates_json, stage_is_dev, coordinates_is_global, lco_locations,
                   lco_passes, coordinates_before, otherThanCoordVars>>

\* 416-421: the file is written in dev when a coordinate was added, and the
\* dict becomes globals.coordinates
SaveCoordinates ==
    /\ lco_pc = "save"
    /\ coordinates_json' =
           IF stage_is_dev /\ new_coordinates_added THEN coordinates ELSE coordinates_json
    /\ globals_coordinates' = coordinates
    /\ lco_pc' = "done"
    /\ UNCHANGED <<stage_is_dev, coordinates, coordinates_is_global,
                   new_coordinates_added, lco_i, lco_j, lco_locations, lco_passes,
                   coordinates_before, geocoded, otherThanCoordVars>>

CoordinateA == Coordinate(1, 1)

\* the dicts globals.coordinates and the file are drawn from
CoordinateDicts ==
    {EmptyDict,
     (MX :> EmptyDict),
     (MX :> (R1 :> CoordinateA)),
     (MX :> (R1 :> None)),
     (MX :> (R1 :> CoordinateA @@ R2 :> CoordinateA)),
     (PK :> (R2 :> CoordinateA))}

CountryWithRegions(alpha2_code, region_names) ==
    [Country(alpha2_code, COUNTRIES_DATA[alpha2_code].name,
             COUNTRIES_DATA[alpha2_code].demonym)
        EXCEPT !.regions = [k \in 1..Len(region_names) |->
                               Region(region_names[k], region_names[k])]]

\* the country lists a focused campaign has stored
CountryLists ==
    {<<>>,
     <<CountryWithRegions(MX, <<>>)>>,
     <<CountryWithRegions(MX, <<R1, R2>>)>>,
     <<CountryWithRegions(PK, <<R2>>), CountryWithRegions(MX, <<R1>>)>>}

-----------------------------------------------------------------------------
(* Calls of populate_additional_q_columns on one drawn row *)

\* the values a field of the additional fields is drawn from
TextValues(s) == {None, PyStr(<<>>), PyStr(s)}

PopulateFields ==
    {AFNoKeys}
    \cup {Q2Fields(o, e, l, c, g) :
              o \in TextValues(<<"o">>), e \in TextValues(<<"e">>),
              l \in {None, PyStr(<<"c", " ", "d">>)}, c \in {None, PyStr(A_CODE)},
              g \in {None, PyStr(<<"e", "s">>)}}

PopulateIdle ==
    /\ pq_campaign = CampaignCode[1]
    /\ pq_fields = AFNoKeys
    /\ pq_row = Pending

CallPopulateAdditionalQColumns ==
    /\ pq_row = Pending
    /\ pq_row' = populate_additional_q_columns(
                     FrameRow(RawRow(B_SLASH_A, PyStr(<<"2", "4">>), MX, PyStr(R1),
                                     PyStr(<<"F">>), pq_fields)),
                     pq_campaign, "q2")
    /\ UNCHANGED <<ageVars, category_mapping, pq_campaign, pq_fields, topVars, warehouse,
                   store, lcd_result, lcVars, ldVars, coordVars>>

-----------------------------------------------------------------------------
(* Specifications *)

InitAge ==
    /\ PopulateIdle
    /\ age_in \in AgeInputs
    /\ age_out = Pending
    /\ age_filtered = Pending
    /\ TopLevelIdle
    /\ StoreIdle
    /\ LoadIdle
    /\ LoadDataIdle
    /\ CoordIdle

NextAge == CallGetAgeBucket \/ CallFilterAges

SpecAge == InitAge /\ [][NextAge]_vars

InitTopLevel ==
    /\ PopulateIdle
    /\ AgeIdle
    /\ tl_campaign \in Campaigns
    /\ \E m \in Mappings :
           category_mapping = [c \in Campaigns |-> IF c = tl_campaign THEN m ELSE EmptyDict]
    /\ \E s \in TopLevelInputs : tl_hist = <<s>>
    /\ StoreIdle
    /\ LoadIdle
    /\ LoadDataIdle
    /\ CoordIdle

NextTopLevel == ApplyGetTopLevel

SpecTopLevel == InitTopLevel /\ [][NextTopLevel]_vars

InitPopulate ==
    /\ pq_campaign \in Campaigns
    /\ pq_fields \in PopulateFields
    /\ pq_row = Pending
    /\ AgeIdle
    /\ TopLevelIdle
    /\ StoreIdle
    /\ LoadIdle
    /\ LoadDataIdle
    /\ CoordIdle

NextPopulate == CallPopulateAdditionalQColumns

SpecPopulate == InitPopulate /\ [][NextPopulate]_vars

InitCampaign ==
    /\ PopulateIdle
    /\ AgeIdle
    /\ tl_campaign = CampaignCode[1]
    /\ tl_hist = <<>>
    /\ category_mapping = [c \in Campaigns |-> CampaignMapping]
    /\ lc_campaign \in Campaigns
    /\ lc_calls = 0
    /\ \E table \in RawTables(lc_campaign) :
           warehouse = [c \in Campaigns |-> IF c = lc_campaign THEN table ELSE <<>>]
    /\ store = [c \in Campaigns |-> EmptyCampaign]
    /\ lcd_result = [c \in Campaigns |-> "not_called"]
    /\ LoadDataIdle
    /\ CoordIdle

NextCampaign == CallLoadCampaignData

SpecCampaign == InitCampaign /\ [][NextCampaign]_vars

Init ==
    /\ PopulateIdle
    /\ AgeIdle
    /\ tl_campaign = CampaignCode[1]
    /\ tl_hist = <<>>
    /\ category_mapping = [c \in Campaigns |-> CampaignMapping]
    /\ LoadIdle
    /\ warehouse \in [Campaigns -> UNION {LoadDataTables(c) : c \in Campaigns}]
    /\ \A c \in Campaigns : warehouse[c] \in LoadDataTables(c)
    /\ store = [c \in Campaigns |-> EmptyCampaign]
    /\ lcd_result = [c \in Campaigns |-> "not_called"]
    /\ LoadDataIdle
    /\ CoordIdle

Next ==
    \/ StartLoadData
    \/ LoadAllCampaignsDataStep
    \/ LoadAllCampaignsNgramsStep
    \/ ClearApiCache
    \/ \E key \in CacheKeys : ApiRequest(key)
    \/ \E request \in in_flight : ApiResponse(request)

Spec == Init /\ [][Next]_vars

InitCoordinates ==
    /\ PopulateIdle
    /\ AgeIdle
    /\ tl_campaign = CampaignCode[1]
    /\ tl_hist = <<>>
    /\ category_mapping = [c \in Campaigns |-> CampaignMapping]
    /\ LoadIdle
    /\ LoadDataIdle
    /\ warehouse = [c \in Campaigns |-> <<>>]
    /\ lcd_result = [c \in Campaigns |-> "not_called"]
    /\ \E mexico \in CountryLists, pakistan \in CountryLists :
           store = [c \in Campaigns |->
                       IF c = "economic_empowerment_mexico"
                       THEN [EmptyCampaign EXCEPT !.countries = Stored(mexico)]
                       ELSE IF c = "what_women_want_pakistan"
                       THEN [EmptyCampaign EXCEPT !.countries = Stored(pakistan)]
                       ELSE EmptyCampaign]
    /\ globals_coordinates \in CoordinateDicts
    /\ coordinates_json \in CoordinateDicts
    /\ stage_is_dev \in BOOLEAN
    /\ coordinates = EmptyDict
    /\ coordinates_is_global = FALSE
    /\ new_coordinates_added = FALSE
    /\ lco_pc = "idle"
    /\ lco_i = 1
    /\ lco_j = 1
    /\ lco_locations = <<>>
    /\ lco_passes = 0
    /\ coordinates_before = EmptyDict
    /\ geocoded = {}

NextCoordinates ==
    \/ StartLoadCoordinates
    \/ CoordinatesCampaignStep
    \/ CoordinatesLocationStep
    \/ SaveCoordinates

SpecCoordinates == InitCoordinates /\ [][NextCoordinates]_vars

-----------------------------------------------------------------------------
(* C3 *)

\* a str of decimal digits
IsDecimalStr(v) ==
    IsStr(v) /\ Len(v.s) > 0 /\ \A i \in 1..Len(v.s) : v.s[i] \in DecimalDigits

\* a str that is empty or has a character that is not a numeric character
IsNonNumericStr(v) ==
    IsStr(v) /\ (Len(v.s) = 0 \/ \E i \in 1..Len(v.s) : v.s[i] \notin NumericChars)

IsNumericAge(v) == v.kind = "int" \/ IsDecimalStr(v)

AgeValue(v) == IF v.kind = "int" THEN v.n ELSE DecimalValue(v.s)

ExpectedBucket(n) ==
    CASE n >= 55 -> Bucket55
      [] n \in 45..54 -> Bucket45
      [] n \in 35..44 -> Bucket35
      [] n \in 25..34 -> Bucket25
      [] n \in 20..24 -> Bucket20
      [] n \in 15..19 -> Bucket15
      [] n \in 0..14 -> BucketNA

Buckets == {Bucket55, Bucket45, Bucket35, Bucket25, Bucket20, Bucket15, BucketNA}

\* C3: get_age_bucket maps every numeric age (an integer or a string that
\* str.isnumeric takes as numeric) to a bucket label, the label of its range
\* when the string is decimal, "55+" from 55 on down to "N/A" for 0..14, and
\* returns every non-numeric string unchanged.
C3_AgeBucket ==
    age_out # Pending =>
        /\ (age_in.kind = "int" \/ (IsStr(age_in) /\ isnumeric(age_in.s)))
               => age_out \in {PyStr(b) : b \in Buckets}
        /\ IsNumericAge(age_in) => age_out = PyStr(ExpectedBucket(AgeValue(age_in)))
        /\ (IsStr(age_in) /\ ~isnumeric(age_in.s)) => age_out = age_in

\* what holds of get_age_bucket: the integers and the strings of decimal
\* digits get the label of their range, and the strings with a character that
\* is not numeric are returned unchanged
DecimalAgesBucketed ==
    age_out # Pending =>
        /\ IsNumericAge(age_in) => age_out = PyStr(ExpectedBucket(AgeValue(age_in)))
        /\ IsNonNumericStr(age_in) => age_out = age_in

-----------------------------------------------------------------------------
(* C5 *)

Leaves(s) == Range(split(s, "/"))

TopLevelOf(leaf) ==
    DictGet(category_mapping[tl_campaign], leaf, leaf)

StrictlyIncreasing(parts) ==
    \A i \in 1..(Len(parts) - 1) : StrLess(parts[i], parts[i + 1])

\* checked at the first application: tl_hist[1] and tl_hist[2] stay as they are
OrderIndependent ==
    Len(tl_hist) = 2 =>
        \A t \in TopLevelInputs :
            Leaves(t) = Leaves(tl_hist[1]) =>
                get_top_level(t, tl_campaign) = tl_hist[2]

SortedTopLevels ==
    Len(tl_hist) = 2 =>
        LET parts == split(tl_hist[2], "/")
        IN  /\ StrictlyIncreasing(parts)
            /\ Range(parts) = {TopLevelOf(l) : l \in Leaves(tl_hist[1])}

Idempotent == Len(tl_hist) >= 3 => tl_hist[3] = tl_hist[2]

\* every top-level code of the mapping is its own top level
TopLevelsAreFixed ==
    \A v \in Range(category_mapping[tl_campaign]) : TopLevelOf(v) = v

-----------------------------------------------------------------------------
(* C1, C2, C4, C9, C10: load_campaign_data on the raw table of a campaign *)

InScope(campaign_code) == Range(get_campaign_q_codes(campaign_code))

\* the canonical code of a raw row for a question: the q1 column of the
\* query, the nlu category of the additional fields for a later question
RawCode(raw, q_code) ==
    IF q_code = "q1" THEN PyStr(raw.q1_canonical_code)
    ELSE IF raw.additional_fields.kind = "json"
    THEN AdditionalGet(raw.additional_fields, q_code, "nlu_category")
    ELSE None

RawUncodable(raw, campaign_code) ==
    \E q \in InScope(campaign_code) : RawCode(raw, q) = PyStr(UNCODABLE)

Returned(c) == lcd_result[c] = "none"

StoredFrame(c) == store[c].dataframe.v

CountRows(df, P(_)) == Cardinality({i \in 1..Len(df) : P(df[i])})

\* C1: a raw row whose canonical code is UNCODABLE for an in-scope question
\* is not in the dataframe load_campaign_data stores: no stored row has that
\* code, and the stored rows are at most the raw rows without it.
C1_NoUncodableStored ==
    \A c \in Campaigns :
        store[c].dataframe.set =>
            /\ \A i \in 1..Len(StoredFrame(c)) : \A q \in InScope(c) :
                   Cell(StoredFrame(c)[i], q, "canonical_code") # PyStr(UNCODABLE)
            /\ LET Codable(raw) == ~RawUncodable(raw, c)
               IN  Len(StoredFrame(c)) <= CountRows(warehouse[c], Codable)

C1_Witness ==
    \E c \in Campaigns :
        /\ Returned(c)
        /\ Len(StoredFrame(c)) = 1
        /\ Len(warehouse[c]) = 2
        /\ RawCode(warehouse[c][2], "q2") = PyStr(UNCODABLE)

\* the age filter of what_young_people_want keeps the raw row
AgeKept(raw, campaign_code) ==
    campaign_code = "what_young_people_want" =>
        IsDecimalStr(raw.age) /\ DecimalValue(raw.age.s) \in 10..24

NoOtherQuestionableStored(c) ==
    \A i \in 1..Len(StoredFrame(c)) : \A q \in InScope(c) :
        Cell(StoredFrame(c)[i], q, "canonical_code") # PyStr(OTHERQUESTIONABLE)

\* C2 as stated: no stored row has canonical code OTHERQUESTIONABLE, and every
\* raw row with that code for a question is kept, with code NOTRELATED.
C2_Original ==
    \A c \in Campaigns :
        Returned(c) =>
            /\ NoOtherQuestionableStored(c)
            /\ \A q \in InScope(c) :
                   LET WasOther(raw) == RawCode(raw, q) = PyStr(OTHERQUESTIONABLE)
                       IsNotRelated(row) ==
                           Cell(row, q, "canonical_code") = PyStr(NOTRELATED)
                   IN  CountRows(StoredFrame(c), IsNotRelated)
                           = CountRows(warehouse[c], WasOther)

\* C2 amended: when load_campaign_data returns, no stored row has canonical
\* code OTHERQUESTIONABLE, and every raw row with that code for a question
\* that the age filter keeps and that is not UNCODABLE for another question
\* is stored with code NOTRELATED.
C2_OtherQuestionableRenamed ==
    \A c \in Campaigns :
        Returned(c) =>
            /\ NoOtherQuestionableStored(c)
            /\ \A q \in InScope(c) :
                   LET WasOtherAndKept(raw) ==
                           /\ RawCode(raw, q) = PyStr(OTHERQUESTIONABLE)
                           /\ ~RawUncodable(raw, c)
                           /\ AgeKept(raw, c)
                       IsNotRelated(row) ==
                           Cell(row, q, "canonical_code") = PyStr(NOTRELATED)
                   IN  CountRows(StoredFrame(c), IsNotRelated)
                           = CountRows(warehouse[c], WasOtherAndKept)

\* the scenario of two raw rows, one OTHERQUESTIONABLE and one UNCODABLE
C2_Witness ==
    \E c \in Campaigns :
        /\ Returned(c)
        /\ Len(warehouse[c]) = 2
        /\ RawCode(warehouse[c][1], "q1") = PyStr(OTHERQUESTIONABLE)
        /\ RawCode(warehouse[c][2], "q1") = PyStr(UNCODABLE)
        /\ Len(StoredFrame(c)) = 1
        /\ Cell(StoredFrame(c)[1], "q1", "canonical_code") = PyStr(NOTRELATED)

\* the raw rows of what_young_people_want that are not dropped as UNCODABLE
\* and whose age is a string of decimal digits with 10 <= age <= 24
KeptByAge(raw) ==
    FilterSeq(raw, {i \in 1..Len(raw) :
                        /\ IsDecimalStr(raw[i].age)
                        /\ DecimalValue(raw[i].age.s) \in 10..24
                        /\ ~RawUncodable(raw[i], "what_young_people_want")})

SameAsKept(df, kept) ==
    /\ Len(df) = Len(kept)
    /\ \A i \in 1..Len(kept) :
           /\ df[i].age = kept[i].age
           /\ df[i].region = kept[i].region
           /\ df[i].gender = kept[i].gender

\* C4: for what_young_people_want a row with any other age than a numeric
\* string with 10 <= age <= 24 is excluded, so the age step does not raise,
\* and the stored dataset is, in order, the raw rows not dropped as UNCODABLE
\* with such an age, each stored age being the raw string.
C4_AgesTenToTwentyFour ==
    LET c == "what_young_people_want"
    IN  /\ lcd_result[c] # "age"
        /\ Returned(c) => SameAsKept(StoredFrame(c), KeptByAge(warehouse[c]))

\* what holds of the age filter: when the call returns, the stored dataset is
\* the raw rows with such an age
ReturnedAgesTenToTwentyFour ==
    LET c == "what_young_people_want"
    IN  Returned(c) => SameAsKept(StoredFrame(c), KeptByAge(warehouse[c]))

\* C9: a call of load_campaign_data that raises leaves every stored artifact
\* of the campaign as it was before the call.
C9_FailedLoadChangesNothing ==
    [][(lc_calls' = lc_calls + 1 /\ lcd_result'[lc_campaign] # "none")
           => store'[lc_campaign] = store[lc_campaign]]_vars

HasUnknownCountry(table) ==
    \E i \in 1..Len(table) : table[i].alpha2country \notin DOMAIN COUNTRIES_DATA

\* C10: a raw row whose country code is not in the country reference data
\* does not abort load_campaign_data: the call does not raise at the country
\* name or at the Country index.
C10_UnknownCountrySkipped ==
    \A c \in Campaigns :
        HasUnknownCountry(warehouse[c]) =>
            lcd_result[c] \notin {"canonical_country", "regions"}

-----------------------------------------------------------------------------
(* C7, C8: the runs of load_data *)

\* the run of load_data has ended, by returning or by raising
RunEnded == ld_pc \in {"done", "failed"}

\* C7: every run of load_data clears the response cache exactly once, and
\* only after the data load and the n-gram load of every campaign have
\* finished; when the run has ended no entry cached before its clear is left.
C7_CacheClearedOnceAfterLoads ==
    /\ cache_clears <= 1
    /\ cache_clears = 1 => ld_data_done = Campaigns /\ ld_ngrams_done = Campaigns
    /\ RunEnded =>
           /\ cache_clears = 1
           /\ \A e \in api_cache : e.run = ld_run /\ e.clears = 1

\* what holds of load_data: at most one clear in a run, only after every
\* load, and exactly one, with no older entry left, in a run that returns
ReturnedRunClearedOnce ==
    /\ cache_clears <= 1
    /\ cache_clears = 1 => ld_data_done = Campaigns /\ ld_ngrams_done = Campaigns
    /\ ld_pc = "done" =>
           /\ cache_clears = 1
           /\ \A e \in api_cache : e.run = ld_run /\ e.clears = 1

\* C8: when load_campaign_data of a campaign raises during load_data, the
\* run still loads the data and the n-grams of every other campaign and
\* clears the response cache.
C8_FailureIsolated ==
    (ld_pc = "failed" /\ \E c \in Campaigns : lcd_result[c] \notin {"none", "not_called"}) =>
        /\ \A c \in Campaigns :
               lcd_result[c] \in {"none", "not_called"} =>
                   c \in ld_data_done /\ c \in ld_ngrams_done
        /\ cache_clears = 1

-----------------------------------------------------------------------------
(* C6: load_coordinates *)

\* C6: during and after a pass of load_coordinates, every (country, region)
\* entry that was in the coordinate cache when the pass started has not been
\* geocoded in the pass and has the value it had, in the dict of the pass and,
\* once the pass is done, in globals.coordinates.
C6_ExistingEntriesKept ==
    lco_pc # "idle" =>
        \A a \in DOMAIN coordinates_before : \A n \in DOMAIN coordinates_before[a] :
            /\ <<a, n>> \notin geocoded
            /\ a \in DOMAIN coordinates
            /\ n \in DOMAIN coordinates[a]
            /\ coordinates[a][n] = coordinates_before[a][n]
            /\ (lco_pc = "done" \/ coordinates_is_global) =>
                   /\ a \in DOMAIN globals_coordinates
                   /\ n \in DOMAIN globals_coordinates[a]
                   /\ globals_coordinates[a][n] = coordinates_before[a][n]

\* a pass over the regions R1 and R2 that started with an entry for R1 and
\* geocoded R2
C6_Witness ==
    /\ lco_pc = "done"
    /\ MX \in DOMAIN coordinates_before
    /\ DOMAIN coordinates_before[MX] = {R1}
    /\ coordinates_before[MX][R1] = CoordinateA
    /\ <<MX, R2>> \in geocoded
    /\ globals_coordinates[MX][R1] = CoordinateA
    /\ globals_coordinates[MX][R2] = Coordinate(2, 2)

-----------------------------------------------------------------------------
(* C11: a payload of additional fields that cannot be parsed *)

Malformed(raw) == raw.additional_fields.kind # "json"

HasMalformedRow(table) == \E i \in 1..Len(table) : Malformed(table[i])

\* C11: a row whose additional-fields payload cannot be parsed is skipped and
\* the load of the campaign goes on: load_campaign_data does not raise at the
\* extraction of the later questions, and a call that returns has stored no
\* such row.
C11_MalformedRowSkipped ==
    \A c \in Campaigns :
        HasMalformedRow(warehouse[c]) =>
            /\ lcd_result[c] # "populate"
            /\ Returned(c) =>
                   \A i \in 1..Len(StoredFrame(c)) : ~Malformed(StoredFrame(c)[i])

-----------------------------------------------------------------------------
(* C12: a geocoder failure in load_coordinates *)

HasEntry(dict, alpha2_code, location_name) ==
    alpha2_code \in DOMAIN dict /\ location_name \in DOMAIN dict[alpha2_code]

\* the locations geocoded in the pass for which a coordinate came back
Resolved ==
    {p \in geocoded :
         /\ HasEntry(coordinates, p[1], p[2])
         /\ coordinates[p[1]][p[2]] \notin {None}}

\* C12: when the geocoder fails for a location (no coordinate, or an
\* exception) the pass of load_coordinates is not aborted, no entry is
\* written for the location, and a new coordinate is marked as added only
\* when a location of the pass was resolved.
C12_GeocoderFailureLeavesNoEntry ==
    lco_pc # "idle" =>
        /\ lco_pc # "failed"
        /\ \A p \in geocoded : HasEntry(coordinates, p[1], p[2]) => p \in Resolved
        /\ new_coordinates_added => Resolved # {}

-----------------------------------------------------------------------------
(* C13: the n-gram stage in load_data *)

\* C13: in every run of load_data the n-gram stage of a campaign starts only
\* after load_campaign_data of that campaign has returned in the same run, with
\* its dataframe stored: the campaign the n-gram loop is at, and every
\* campaign whose n-grams are loaded, has had its data loaded in the run.
C13_NgramsAfterDataframe ==
    /\ ld_pc = "ngrams" =>
           /\ CampaignCode[ld_i] \in ld_data_done
           /\ lcd_result[CampaignCode[ld_i]] = "none"
           /\ store[CampaignCode[ld_i]].dataframe.set
    /\ \A c \in ld_ngrams_done :
           /\ c \in ld_data_done
           /\ store[c].dataframe.set
           /\ store[c].q1_ngrams_unfiltered.set

\* the n-gram loop of a second run at the last campaign
C13_Witness ==
    /\ ld_run = 2
    /\ ld_pc = "ngrams"
    /\ ld_i = Len(CampaignCode)
    /\ ld_ngrams_done = {CampaignCode[1], CampaignCode[2]}

-----------------------------------------------------------------------------
(* C14: a later question without canonical code or lemmatized text *)

\* the additional fields of the raw row have no value for a field of a later
\* in-scope question
LacksField(raw, campaign_code, field) ==
    /\ raw.additional_fields.kind = "json"
    /\ \E q \in InScope(campaign_code) \ {"q1"} :
           ~Truthy(AdditionalGet(raw.additional_fields, q, field))

LacksCodeOrLemmatized(raw, campaign_code) ==
    \/ LacksField(raw, campaign_code, "nlu_category")
    \/ LacksField(raw, campaign_code, "lemmatized_text")

\* the columns of the question are all set or all unset in the row
FullyPopulatedOrAbsent(row, q) ==
    LET unset == {col \in {"lemmatized", "canonical_code", "original_language"} :
                      Cell(row, q, col) = NaN}
    IN  unset = {} \/ Cardinality(unset) = 3

\* C14: a row whose additional fields have no canonical code or no lemmatized
\* text for a question beyond q1 is dropped and the load completes:
\* load_campaign_data does not raise at the tokenization, the UNCODABLE
\* removal or the top-level derivation on a table with such a row, and a call
\* that returns has stored no row with a partly populated column set.
C14_IncompleteRowDropped ==
    \A c \in Campaigns :
        /\ (\E i \in 1..Len(warehouse[c]) : LacksCodeOrLemmatized(warehouse[c][i], c))
               => lcd_result[c] \notin {"tokenize", "uncodable", "top_level"}
        /\ Returned(c) =>
               \A i \in 1..Len(StoredFrame(c)) : \A q \in InScope(c) :
                   FullyPopulatedOrAbsent(StoredFrame(c)[i], q)

-----------------------------------------------------------------------------
(* C15, C16: what readers see during and after a reload *)

\* C15: at every point between two steps of load_data, the artifacts of a
\* campaign that a reader can get (ages, countries, genders, professions,
\* dataset, n-grams) were all set by the same run of load_data: the reader
\* never gets some of them from one reload and some from another.
C15_OneVersionPerCampaign ==
    \A c \in Campaigns :
        \A a, b \in Artifacts :
            written_in[c][a] # 0 /\ written_in[c][b] # 0
                => written_in[c][a] = written_in[c][b]

\* C16: once load_data has cleared the response cache (the run is at its
\* end), every cache entry was computed from the dataset that the run
\* stored: no entry computed from the data of before the reload is in the
\* cache, whether put before the clear or by a request that had read the
\* store before the reload ended.
C16_NoStaleEntryAfterClear ==
    ld_pc = "done" =>
        \A e \in api_cache : e.data_run = ld_run

-----------------------------------------------------------------------------
(* C17: the ages facet against the stored dataset *)

\* the distinct ages of the rows of a dataframe, None and NaN left out
FrameAges(df) == {df[i].age : i \in 1..Len(df)} \ {None, NaN}

\* the age codes of the ages facet
FacetAges(ages) == {ages[i].code : i \in 1..Len(ages)}

\* C17: when load_campaign_data returns, the ages it stored are exactly the
\* distinct non-null ages of the rows of the dataframe it stored: no stored
\* age comes only from rows that were dropped as UNCODABLE.
C17_AgesOfStoredRows ==
    \A c \in Campaigns :
        Returned(c) => FacetAges(store[c].ages.v) = FrameAges(StoredFrame(c))

\* what holds of the ages facet: every age of a stored row is in it
StoredAgesInFacet ==
    \A c \in Campaigns :
        Returned(c) => FrameAges(StoredFrame(c)) \subseteq FacetAges(store[c].ages.v)

-----------------------------------------------------------------------------
(* C18: the raw response populate_additional_q_columns gives a later question *)

PopulateOriginal == AdditionalGet(pq_fields, "q2", "original_text")
PopulateEnglish == AdditionalGet(pq_fields, "q2", "english_text")

\* "original (english)"
OriginalWithEnglish(original, english) ==
    PyStr(original.s \o <<" ", "(">> \o english.s \o <<")">>)

\* the raw response the claim gives the row
ClaimedRawResponse ==
    IF pq_campaign = "economic_empowerment_mexico"
    THEN IF Truthy(PopulateOriginal) /\ Truthy(PopulateEnglish)
         THEN OriginalWithEnglish(PopulateOriginal, PopulateEnglish)
         ELSE IF Truthy(PopulateOriginal) THEN PopulateOriginal
         ELSE PopulateEnglish
    ELSE PopulateOriginal

\* C18: for economic_empowerment_mexico the raw response of the later
\* question is "original (english)" when both texts are present, and else
\* the text that is present, the English one when only it is; for the other
\* campaigns it is the original text. A row with neither text is not covered.
C18_RawResponse ==
    (pq_row # Pending
     /\ (pq_campaign = "economic_empowerment_mexico"
             => Truthy(PopulateOriginal) \/ Truthy(PopulateEnglish)))
        => Cell(pq_row, "q2", "raw_response") = ClaimedRawResponse

\* what holds of the raw response: the claimed value in every case but the
\* one of economic_empowerment_mexico without the original text, where the
\* column is not set whether or not there is an English text
RawResponseButEnglishOnly ==
    pq_row # Pending =>
        IF pq_campaign = "economic_empowerment_mexico"
        THEN IF ~Truthy(PopulateOriginal)
             THEN Cell(pq_row, "q2", "raw_response") = NaN
             ELSE Cell(pq_row, "q2", "raw_response") = ClaimedRawResponse
        ELSE Cell(pq_row, "q2", "raw_response") = PopulateOriginal

====
